---- MODULE Spec2Model ----
(***************************************************************************)
(* Model of the generic test case minimizer, fuzzers/generic_minimizer.py. *)
(* One process run is main -> CGenericMinimizer.minimize -> do_try.  The   *)
(* state is the minimizer object's fields (diff, template, crash), the     *)
(* locals of do_try (start_at, i, pos index, iteration, minimized, buf,    *)
(* ret), the files the run touches (the scratch file, the output           *)
(* directory) and the environment it runs in (the three input files, the   *)
(* NIGHTMARE_ITERATION token, the target command).                         *)
(***************************************************************************)
EXTENDS Integers, Sequences, FiniteSets, TLC

VARIABLES
    templateFile,   \* bytes of the template file
    crashFile,      \* bytes of the crashing file
    diffFile,       \* lines of the .diff file
    token,          \* NIGHTMARE_ITERATION: {} when unset, {k} when set to k
    outdirOk,       \* whether shutil.copy into outdir can succeed:
                    \* "yes" or "no", "unknown" until the first copy
    det,            \* whether the target command is deterministic
    memo,           \* answers the deterministic command has given so far
    outdir,         \* contents of the files written into outdir
    diff,           \* self.diff
    template,       \* self.template
    crash,          \* self.crash
    start_at,       \* do_try parameter
    n,              \* len(self.diff) when range() was evaluated (line 161)
    i,              \* outer loop variable
    j,              \* position of the inner iterator in self.diff (1-based)
    iteration,      \* do_try local
    minimized,      \* do_try local
    buf,            \* do_try local
    scratch,        \* contents of the files created at mktemp() paths
    ret,            \* do_try local: the command's return code
    written,        \* the files this run has written into outdir, in order
    pc,             \* position of the run
    trials,         \* history: the invocations of the command by this run
    answers,        \* history: the outcomes the command had in this run
    popped,         \* history: the values popped from self.diff, in order
    replay,         \* a buffer fed back through the command after the run
    prior           \* what the earlier run, if any, ended with

inputs == <<templateFile, crashFile, diffFile, det>>
fields == <<diff, template, crash>>
locals == <<start_at, n, i, j, iteration, minimized, buf, ret>>
files == <<scratch, outdir, written>>
hist == <<trials, answers, popped>>
vars == <<inputs, token, outdirOk, memo, fields, locals, files, pc, hist, replay, prior>>

----------------------------------------------------------------------------
(* Bounds of the model *)

\* longest .diff file, in lines
MaxDiff == 3
\* largest NIGHTMARE_ITERATION drawn for a first run
MaxStart == 2

----------------------------------------------------------------------------
(* Values *)

\* a bytearray, indexed from 0 as in the source
Bytes(s) == [k \in 0..(Len(s) - 1) |-> s[k + 1]]

NoBytes == Bytes(<< >>)

\* (template file, crashing file) pairs the runs are drawn from
InputFiles ==
    { [template |-> Bytes(<<"A", "A", "A", "A">>),
       crash    |-> Bytes(<<"A", "B", "A", "C">>)],
      [template |-> Bytes(<<"A", "A", "A">>),
       crash    |-> Bytes(<<"B", "C", "B">>)],
      [template |-> Bytes(<<"A">>),
       crash    |-> Bytes(<<"B", "C">>)] }

\* a line of the .diff file: the integer it spells; a negative one stands
\* for a line str.isdigit() rejects ("-1", a comment, an empty line)
DiffLines == -1 .. 3

DiffFiles == UNION { [1..m -> DiffLines] : m \in 0..MaxDiff }

Tokens == { {} } \cup { {k} : k \in 0..MaxStart }

\* nfp_process.RETURN_SIGNALS: return codes that mean a fatal signal
RETURN_SIGNALS == { "SIGSEGV", "SIGABRT" }

\* return codes of TimeoutCommand.run that are not in the table
NonCrashRets == { "timeout", "exit" }

Rets == RETURN_SIGNALS \cup NonCrashRets

\* what an invocation of the command can end with
Outcomes == Rets \cup { "raise" }

Range(s) == { s[k] : k \in 1..Len(s) }

----------------------------------------------------------------------------
(* The target command (nfp_process.TimeoutCommand), as the run sees it *)

\* what the engine can tell apart in an answer: crash signal, non-crash, raise
Class(out) == IF out \in NonCrashRets THEN "noncrash" ELSE out

Known(b) == { m \in memo : m.buf = b }

\* the outcomes the command can have on buffer b: anything, unless the
\* command is deterministic and has answered on b before
CommandOutcomes(b) ==
    IF det /\ Known(b) # {}
    THEN { o \in Outcomes : \E m \in Known(b) : Class(o) = m.class }
    ELSE Outcomes

Remember(b, o) ==
    IF det THEN memo \cup { [buf |-> b, class |-> Class(o)] } ELSE memo

----------------------------------------------------------------------------
(* Pure parts of the source *)

\* line 77: str.isdigit()
IsDigit(line) == line >= 0

\* lines 70-78: the offsets appended to self.diff
read_diff(lines) == SelectSeq(lines, IsDigit)

\* first position of d whose offset is outside tmp (tmp[pos] raises
\* IndexError there), Len(d) + 1 when there is none
FirstBad(d, tmp) ==
    IF \E k \in 1..Len(d) : d[k] \notin DOMAIN tmp
    THEN CHOOSE k \in 1..Len(d) :
            /\ d[k] \notin DOMAIN tmp
            /\ \A m \in 1..(k - 1) : d[m] \in DOMAIN tmp
    ELSE Len(d) + 1

\* lines 83-88: self.crash as read_crash leaves it
read_crash(d, tmp) ==
    [pos \in { d[k] : k \in 1..(FirstBad(d, tmp) - 1) } |-> tmp[pos]]

\* lines 147-152: start_at from the environment
StartFrom(tok) == IF tok = {} THEN 0 ELSE CHOOSE k \in tok : TRUE

\* mutation of ShouldTry: the comparison is strict
ShouldTryStrict(start, iter) == start < iter

\* line 163
ShouldTry(start, iter) == start <= iter

\* what an operator yields when the statement it models raises IndexError
IndexError == "IndexError"

\* lines 170, 204: the offset is an index of the bytearray t (offsets are
\* never negative: str.isdigit() at line 77)
InRange(t, pos) == pos \in DOMAIN t

\* mutation of TrialBuf: the crash byte lands one offset further
TrialBufNext(t, c, pos) ==
    IF ~InRange(t, pos) THEN IndexError
    ELSE IF pos + 1 \in DOMAIN t THEN [t EXCEPT ![pos + 1] = c[pos]] ELSE t

\* lines 166-170: the trial buffer; buf[pos] = ... raises IndexError when
\* pos is past the end of the template
TrialBuf(t, c, pos) ==
    IF InRange(t, pos) THEN [t EXCEPT ![pos] = c[pos]] ELSE IndexError

\* mutation of KeptTemplate: buf is self.template itself, not a copy
AliasedTemplate(t, b) == b

\* line 166: buf is a copy: self.template after buf has been written to
KeptTemplate(t, b) == t

\* mutation of RoundDone: the inner loop may stop one offset early
RoundDoneEarly(k, d) == k >= Len(d)

\* line 162: the inner loop has used up self.diff
RoundDone(k, d) == k > Len(d)

\* the bytes of the one file among tmpfiles
OnDisk(tmpfiles) == CHOOSE c \in tmpfiles : TRUE

\* mutation of IsCrash: no return code is taken for a crash
IsCrashNever(r) == FALSE

\* mutation of IsCrash: every return code but a normal exit counts as a crash
IsCrashNonZero(r) == r # "exit"

\* line 183
IsCrash(r) == r \in RETURN_SIGNALS

\* mutation of Copied: an empty file reaches outdir
CopiedEmpty(tmpfiles) == { NoBytes }

\* line 187: shutil.copy(temp_file, filename): the bytes that reach outdir
Copied(tmpfiles) == tmpfiles

\* mutation of OnRaise: the exception leaves do_try without the finally clause
OnRaiseNoFinally == "aborted"

\* lines 175, 191: where an exception raised inside the try block goes
OnRaise == "finally_raise"

\* line 192: os.remove(temp_file)
Removed(tmpfiles) == {}

\* mutation of PopValue: the first entry is taken
PopFirst(d) == d[1]

\* line 202: list.pop(), the value returned
PopValue(d) == d[Len(d)]

\* mutation of PopRest: the first entry is removed
PopRestFirst(d) == Tail(d)

\* mutation of PopRest: no entry is removed
PopRestNone(d) == d

\* line 202: list.pop(), the list left
PopRest(d) == SubSeq(d, 1, Len(d) - 1)

\* mutation of CommitTemplate: the committed byte is not written
CommitTemplateNone(t, c, value) == t

\* lines 203-204: self.template after the commit; the assignment raises
\* IndexError when the offset is in self.crash and past the template's end
CommitTemplate(t, c, value) ==
    IF value \notin DOMAIN c THEN t
    ELSE IF InRange(t, value) THEN [t EXCEPT ![value] = c[value]]
    ELSE IndexError

\* mutation of CommitCrash: the key of the committed offset is kept
CommitCrashKeep(t, c, value) == c

\* lines 203-205: self.crash after the commit; line 205 is not reached when
\* line 204 raises
CommitCrash(t, c, value) ==
    IF value \in DOMAIN c /\ ~InRange(t, value) THEN c
    ELSE [p \in (DOMAIN c) \ {value} |-> c[p]]

----------------------------------------------------------------------------
(* Initial state: the environment is drawn, the object is constructed *)

Init ==
    /\ \E f \in InputFiles : templateFile = f.template /\ crashFile = f.crash
    /\ diffFile \in DiffFiles
    /\ token \in Tokens
    /\ outdirOk = "unknown"
    /\ det \in BOOLEAN
    /\ memo = {}
    /\ outdir = {}
    /\ written = << >>
    /\ diff = << >>
    /\ template = NoBytes
    /\ crash = << >>
    /\ start_at = 0
    /\ n = 0
    /\ i = 0
    /\ j = 1
    /\ iteration = 0
    /\ minimized = FALSE
    /\ buf = NoBytes
    /\ scratch = {}
    /\ ret = "none"
    /\ pc = "start"
    /\ trials = << >>
    /\ answers = {}
    /\ popped = << >>
    /\ replay = {}
    /\ prior = << >>

Terminal == { "success", "failure", "aborted" }

----------------------------------------------------------------------------
(* Steps of a run *)

\* lines 211-213, 141-154, 158-161: main, minimize, up to the loop head
Minimize ==
    /\ pc = "start"
    /\ LET d == diff \o read_diff(diffFile) IN
        /\ diff' = d
        /\ template' = templateFile
        /\ crash' = read_crash(d, crashFile)
        /\ IF FirstBad(d, crashFile) <= Len(d)
           THEN /\ pc' = "aborted"          \* IndexError in read_crash
                /\ UNCHANGED locals
           ELSE /\ start_at' = StartFrom(token)
                /\ n' = Len(d)
                /\ i' = 0
                /\ j' = 1
                /\ iteration' = 0
                /\ minimized' = FALSE
                /\ pc' = "loop"
                /\ UNCHANGED <<buf, ret>>
    /\ UNCHANGED <<inputs, token, outdirOk, memo, files, hist, replay, prior>>

\* the inner loop is at an offset of the current round
Visiting == pc = "loop" /\ i < n /\ ~RoundDone(j, diff)

\* lines 162-163, 197: the pair is below the resume threshold
SkipVisit ==
    /\ Visiting
    /\ ~ShouldTry(start_at, iteration)
    /\ iteration' = iteration + 1
    /\ j' = j + 1
    /\ UNCHANGED <<inputs, token, outdirOk, memo, fields, files, pc, hist, replay, prior>>
    /\ UNCHANGED <<start_at, n, i, minimized, buf, ret>>

\* lines 163-168: the offset is not in self.crash: continue
AbsentVisit ==
    /\ Visiting
    /\ ShouldTry(start_at, iteration)
    /\ diff[j] \notin DOMAIN crash
    /\ buf' = template
    /\ j' = j + 1
    /\ UNCHANGED <<inputs, token, outdirOk, memo, fields, files, pc, hist, replay, prior>>
    /\ UNCHANGED <<start_at, n, i, iteration, minimized, ret>>

\* lines 163-173: build the trial buffer and write the scratch file
BuildTrial ==
    /\ Visiting
    /\ ShouldTry(start_at, iteration)
    /\ diff[j] \in DOMAIN crash
    /\ IF InRange(template, diff[j])
       THEN /\ buf' = TrialBuf(template, crash, diff[j])
            /\ template' = KeptTemplate(template, buf')
            /\ scratch' = scratch \cup { buf' }
            /\ pc' = "run"
       ELSE /\ buf' = template            \* line 166 done, line 170 raises
            /\ pc' = "aborted"            \* outside the try block
            /\ UNCHANGED <<template, scratch>>
    /\ UNCHANGED <<inputs, token, outdirOk, memo, diff, crash, outdir, written, hist, replay, prior>>
    /\ UNCHANGED <<start_at, n, i, j, iteration, minimized, ret>>

\* lines 175-183: run the command on the scratch file and classify
RunCommand ==
    /\ pc = "run"
    /\ \E o \in CommandOutcomes(OnDisk(scratch)) :
        /\ memo' = Remember(OnDisk(scratch), o)
        /\ answers' = answers \cup {o}
        /\ IF o = "raise"
           THEN pc' = OnRaise /\ ret' = ret
           ELSE /\ ret' = o
                /\ pc' = IF IsCrash(o) THEN "copy" ELSE "finally_next"
    /\ trials' = Append(trials, [round |-> i, idx |-> j, pos |-> diff[j],
                                  iter |-> iteration, buf |-> OnDisk(scratch)])
    /\ UNCHANGED <<inputs, token, outdirOk, fields, files, popped, replay, prior>>
    /\ UNCHANGED <<start_at, n, i, j, iteration, minimized, buf>>

\* lines 184-190: persist the crashing trial
Persist ==
    /\ pc = "copy"
    /\ outdirOk' \in IF outdirOk = "unknown" THEN {"yes", "no"} ELSE {outdirOk}
    /\ IF outdirOk' = "yes"
       THEN /\ outdir' = outdir \cup Copied(scratch)
            /\ written' = Append(written, OnDisk(Copied(scratch)))
            /\ minimized' = TRUE
            /\ pc' = "finally_break"
       ELSE /\ pc' = OnRaise            \* shutil.copy raises
            /\ UNCHANGED <<outdir, written, minimized>>
    /\ UNCHANGED <<inputs, token, memo, fields, scratch, hist, replay, prior>>
    /\ UNCHANGED <<start_at, n, i, j, iteration, buf, ret>>

\* lines 191-200, 207: the finally clause, then where control goes
RemoveScratch ==
    /\ pc \in { "finally_next", "finally_break", "finally_raise" }
    /\ scratch' = Removed(scratch)
    /\ IF pc = "finally_next"
       THEN /\ pc' = "loop"
            /\ iteration' = iteration + 1
            /\ j' = j + 1
       ELSE /\ pc' = IF pc = "finally_break" THEN "success" ELSE "aborted"
            /\ UNCHANGED <<iteration, j>>
    /\ UNCHANGED <<inputs, token, outdirOk, memo, fields, outdir, written, hist, replay, prior>>
    /\ UNCHANGED <<start_at, n, i, minimized, buf, ret>>

\* lines 199-205: the round ended without a crash: commit one offset
Commit ==
    /\ pc = "loop"
    /\ i < n
    /\ RoundDone(j, diff)
    /\ LET value == PopValue(diff) IN
        /\ diff' = PopRest(diff)
        /\ popped' = Append(popped, value)
        /\ crash' = CommitCrash(template, crash, value)
        /\ IF value \in DOMAIN crash /\ ~InRange(template, value)
           THEN /\ pc' = "aborted"        \* line 204 raises IndexError
                /\ UNCHANGED <<template, i>>
           ELSE /\ template' = CommitTemplate(template, crash, value)
                /\ i' = i + 1
                /\ pc' = pc
    /\ j' = 1
    /\ UNCHANGED <<inputs, token, outdirOk, memo, files, trials, answers, replay, prior>>
    /\ UNCHANGED <<start_at, n, iteration, minimized, buf, ret>>

\* lines 161, 207-208: the rounds are used up
GiveUp ==
    /\ pc = "loop"
    /\ i = n
    /\ ~minimized
    /\ pc' = "failure"
    /\ UNCHANGED <<inputs, token, outdirOk, memo, fields, locals, files, hist, replay, prior>>

Next ==
    \/ Minimize
    \/ SkipVisit
    \/ AbsentVisit
    \/ BuildTrial
    \/ RunCommand
    \/ Persist
    \/ RemoveScratch
    \/ Commit
    \/ GiveUp

Spec == Init /\ [][Next]_vars

\* a run is one sequential thread of control: it keeps taking steps
FairSpec == Spec /\ WF_vars(Next)

----------------------------------------------------------------------------
(* After a run *)

\* the candidate offsets as read from the .diff file
Candidates == read_diff(diffFile)

\* the template file with the crashing file's bytes at the offsets S
Apply(S) ==
    [o \in DOMAIN templateFile |->
        IF o \in S /\ o \in DOMAIN crashFile THEN crashFile[o] ELSE templateFile[o]]

\* the offsets where buffer b differs from the template file
DiffSet(b) == { o \in DOMAIN templateFile : b[o] # templateFile[o] }

\* spec section 8, reproduction property: a buffer made of the template and
\* some of the candidate changes is fed back through the command, once
Replay ==
    /\ pc \in Terminal
    /\ replay = {}
    /\ det
    /\ FirstBad(Candidates, crashFile) > Len(Candidates)
    /\ \E S \in SUBSET Range(Candidates) :
        \E o \in CommandOutcomes(Apply(S)) :
            replay' = { [buf |-> Apply(S), out |-> o] }
    /\ UNCHANGED <<inputs, token, outdirOk, memo, fields, locals, files, pc, hist, prior>>

NextReplay == Next \/ Replay

SpecReplay == Init /\ [][NextReplay]_vars

\* lines 211-213 again, in a new process: a later run on the same files,
\* with NIGHTMARE_ITERATION unset, set to any value or set to the iteration
\* the run before stopped at
Restart ==
    /\ pc \in Terminal
    /\ prior = << >>
    /\ prior' = Append(prior, [start |-> start_at, status |-> pc,
                               iteration |-> iteration, written |-> written,
                               trials |-> trials])
    /\ token' \in Tokens \cup { {iteration} }
    /\ diff' = << >>
    /\ template' = NoBytes
    /\ crash' = << >>
    /\ start_at' = 0
    /\ n' = 0
    /\ i' = 0
    /\ j' = 1
    /\ iteration' = 0
    /\ minimized' = FALSE
    /\ buf' = NoBytes
    /\ ret' = "none"
    /\ written' = << >>
    /\ trials' = << >>
    /\ answers' = {}
    /\ popped' = << >>
    /\ pc' = "start"
    /\ UNCHANGED <<inputs, outdirOk, memo, scratch, outdir, replay>>

NextRuns == Next \/ Restart

\* the first run starts from iteration zero, the command is deterministic
InitRuns == Init /\ det /\ token = {}

SpecRuns == InitRuns /\ [][NextRuns]_vars

----------------------------------------------------------------------------
(* Properties of a run *)

\* the offsets at which the persisted buffer carries a candidate change
Applied == DiffSet(written[1]) \cap Range(Candidates)

\* the subsets the greedy search considers: the last jj entries of the
\* candidate list together with one of the entries before them
GreedySets ==
    LET c == Candidates
        N == Len(c)
    IN  { { c[m] : m \in (N - jj + 1)..N } \cup { c[k] } :
            <<jj, k>> \in { q \in (0..N) \X (1..N) : q[2] <= N - q[1] } }

\* the replayed buffer applies a set of S with fewer elements than Applied
ReplayedSmaller(sets) ==
    \E r \in replay : \E S \in sets :
        /\ Cardinality(S) < Cardinality(Applied)
        /\ r.buf = Apply(S)

ReplayCrashed == \E r \in replay : r.out \in RETURN_SIGNALS

\* C1 as claimed: when a run with a deterministic command ends in success,
\* no subset of the candidate offsets with fewer elements than the applied
\* set makes the command crash when applied to the original template.
\* Stated in the claim's favour for runs started from iteration zero and
\* for non-empty subsets only (the template itself is known good).
C1_SmallestSubset ==
    (pc = "success" /\ det /\ start_at = 0
        /\ ReplayedSmaller((SUBSET Range(Candidates)) \ {{}}))
        => ~ReplayCrashed

\* C1 as amended: when a run started from iteration zero with a
\* deterministic command ends in success, no set the greedy search
\* considers (the last entries of the list plus one earlier entry) with
\* fewer elements than the applied set makes the command crash.
C1_SmallestAmongGreedy ==
    (pc = "success" /\ det /\ start_at = 0 /\ ReplayedSmaller(GreedySets))
        => ~ReplayCrashed

C1_Witness ==
    /\ pc = "success" /\ det /\ start_at = 0
    /\ Cardinality(Applied) = 3
    /\ ReplayedSmaller({ S \in GreedySets : Cardinality(S) = 2 })
    /\ ~ReplayCrashed

\* C2: every persisted buffer equals the original template file at every
\* offset outside the candidate list, and holds the template file's byte or
\* the crashing file's byte at every candidate offset.
C2_SubsetFidelity ==
    \A k \in 1..Len(written) :
        /\ DOMAIN written[k] = DOMAIN templateFile
        /\ \A o \in DOMAIN templateFile :
            IF o \in Range(Candidates)
            THEN written[k][o] \in { templateFile[o], crashFile[o] }
            ELSE written[k][o] = templateFile[o]

C2_Witness ==
    /\ pc = "success"
    /\ \E o \in Range(Candidates) \cap DOMAIN templateFile :
        written[1][o] = crashFile[o] /\ crashFile[o] # templateFile[o]
    /\ \E o \in Range(Candidates) \cap DOMAIN templateFile :
        written[1][o] = templateFile[o] /\ crashFile[o] # templateFile[o]
    /\ \E o \in DOMAIN templateFile : o \notin Range(Candidates)

\* C3: a scratch file exists only while its trial is under way: none exists
\* between trials or in a terminal state, whatever the trial ended with.
C3_ScratchReleased ==
    /\ Cardinality(scratch) <= 1
    /\ pc \in {"start", "loop"} \cup Terminal => scratch = {}

\* a trial whose copy raised is over and its scratch file is gone
C3_Witness ==
    /\ pc = "aborted"
    /\ ret \in RETURN_SIGNALS
    /\ "raise" \notin answers
    /\ scratch = {}

\* do_try has been entered: read_crash raised no IndexError
Loaded == pc # "start" /\ FirstBad(Candidates, crashFile) > Len(Candidates)

\* every candidate offset is an index of the template file, so that neither
\* line 170 nor line 204 raises IndexError
InTemplate ==
    \A k \in 1 .. Len(Candidates) : InRange(templateFile, Candidates[k])

\* the popped offsets whose commit went through (line 205 passed)
Committed == SubSeq(popped, 1, i)

\* C4: with a deterministic command, when a run from iteration zero ended in
\* success with the iteration counter at k, a later run on the same inputs
\* resumed at k, or started from zero again, also ends in success and
\* persists the same buffer.
C4_ResumeIdempotent ==
    \A r \in Range(prior) :
        ( /\ det
          /\ r.start = 0 /\ r.status = "success"
          /\ pc \in Terminal
          /\ start_at \in { 0, r.iteration } )
        => (pc = "success" /\ written = r.written)

\* the resumed run skipped the trials of at least one whole round
C4_Witness ==
    /\ pc = "success"
    /\ \E r \in Range(prior) :
        /\ r.start = 0 /\ r.status = "success"
        /\ r.iteration >= 3
        /\ start_at = r.iteration
        /\ written = r.written
        /\ Len(trials) < Len(r.trials)

ScenarioA ==
    /\ templateFile = Bytes(<<"A", "A", "A", "A">>)
    /\ crashFile = Bytes(<<"A", "B", "A", "C">>)
    /\ Candidates = <<1, 3>>
    /\ start_at = 0
    /\ pc = "success"
    /\ Len(trials) = 3

\* C5: the offsets are committed from the end of the candidate list: after
\* r commits the popped values are the last r entries of the list, last
\* first, the list is what is left before them, the template carries
\* their crash bytes and the crash-byte map has lost them (for the commits
\* that went through: a commit of an offset past the template's end raises
\* IndexError at line 204, after the pop).  In scenario A
\* (AAAA, ABAC, offsets 1 and 3, no crash on a single change) offset 3 is
\* committed, the trial of offset 1 in the second round crashes and the
\* output is ABAC.
C5_CommitsLast ==
    /\ Loaded =>
        LET c == Candidates
            N == Len(c)
        IN  /\ Len(popped) <= N
            /\ \A k \in 1..Len(popped) : popped[k] = c[N - k + 1]
            /\ diff = SubSeq(c, 1, N - Len(popped))
            /\ Len(popped) \in { i, i + 1 }
            /\ Len(popped) = i + 1 => pc = "aborted"
            /\ template = Apply(Range(Committed))
            /\ DOMAIN crash = Range(c) \ Range(Committed)
    /\ ScenarioA =>
        /\ popped = <<3>>
        /\ trials[3].round = 1 /\ trials[3].pos = 1
        /\ written = << Bytes(<<"A", "B", "A", "C">>) >>

C5_Witness == ScenarioA /\ popped = <<3>> /\ diff = <<1>>

NoCrashSeen == answers \cap RETURN_SIGNALS = {}

\* C6: as long as the command has not been classified as crashed nothing is
\* written into the output directory, so a run that ends without a crash
\* classification has written nothing; a file is written only by the step
\* that follows a crash classification.
C6_NoOutputOnFailure ==
    /\ [](NoCrashSeen => (outdir = {} /\ written = << >>))
    /\ [][(outdir' # outdir \/ written' # written)
            => (pc = "copy" /\ ret \in RETURN_SIGNALS /\ ~NoCrashSeen)]_vars

\* a run aborted by an exception from the command, after a trial that passed
C6_Witness ==
    /\ pc = "aborted"
    /\ "raise" \in answers
    /\ Len(trials) >= 2
    /\ outdir = {}

\* C7: on success exactly one file has been written, and it holds the bytes
\* of the trial the command crashed on, so a deterministic command run on it
\* again can only end with the same signal.
C7_PersistsCrashingTrial ==
    pc = "success" =>
        /\ Len(written) = 1
        /\ outdir = { written[1] }
        /\ written[1] = trials[Len(trials)].buf
        /\ written[1] = buf
        /\ ret \in RETURN_SIGNALS
        /\ det => CommandOutcomes(written[1]) = { ret }

C7_Witness ==
    /\ pc = "success" /\ det
    /\ Len(trials) >= 3
    /\ written = << buf >>
    /\ written[1] # templateFile

\* C8: once loaded the candidate sequence never grows; it changes only when
\* a round has visited all its offsets without a crash, and then loses
\* exactly its last entry; of the two terminal states of the search it is
\* empty in failure and not empty in success.
C8_MonotoneShrink ==
    /\ [][pc # "start" =>
            \/ diff' = diff
            \/ /\ diff # << >>
               /\ diff' = SubSeq(diff, 1, Len(diff) - 1)
               /\ j > Len(diff) /\ pc = "loop"
               /\ i' = i + 1 \/ pc' = "aborted"
               /\ NoCrashSeen]_vars
    /\ [][i' = i + 1 => Len(diff') = Len(diff) - 1]_vars
    /\ [](pc = "failure" => diff = << >>)
    /\ [](pc = "success" => diff # << >>)
    /\ []((pc = "aborted" /\ InTemplate) => diff # << >>)

C8_Witness ==
    /\ pc = "success"
    /\ Len(Candidates) = 3
    /\ Len(diff) = 1

\* C9: if no exception is raised, every run eventually ends in success (a
\* crash classification) or in failure (the candidate sequence used up), and
\* takes no step after either.  (<>(raised \/ ended) is []~raised => <>ended.)
C9_Terminates ==
    /\ <>( \/ pc = "success" /\ ret \in RETURN_SIGNALS
           \/ pc = "failure" /\ diff = << >>
           \/ pc \in { "finally_raise", "aborted" } )
    /\ [][pc \notin { "success", "failure" }]_vars

C9_Witness ==
    /\ pc = "failure"
    /\ start_at > 0
    /\ Len(trials) >= 3

\* C10: a return code outside the table of crash signals makes the run go on
\* to the next offset: nothing is written, no exception, the search goes on.
\* When every trial times out (and every offset is within the template, so
\* that every trial can be built) the run ends in failure, the sequence used
\* up and nothing written.
C10_NonCrashGoesOn ==
    /\ [][(pc = "run" /\ pc' # "finally_raise" /\ ret' \in NonCrashRets)
            => (pc' = "finally_next" /\ written' = written)]_vars
    /\ [][pc = "finally_next"
            => (pc' = "loop" /\ j' = j + 1 /\ i' = i /\ diff' = diff)]_vars
    /\ []((pc \in Terminal /\ Loaded /\ InTemplate /\ answers \subseteq {"timeout"})
            => (pc = "failure" /\ diff = << >> /\ outdir = {}))

C10_Witness ==
    /\ pc = "failure"
    /\ answers = {"timeout"}
    /\ Len(trials) = 6

\* the candidate list holds no offset twice
NoDup(d) == \A a, b \in 1 .. Len(d) : d[a] = d[b] => a = b

\* the (round, list index, offset) of every trial of ts, in order
Visits(ts) == [ k \in 1 .. Len(ts) |->
                  <<ts[k].round, ts[k].idx, ts[k].pos>> ]

\* the trials of ts made at iteration k or later
TrialsFrom(ts, k) == LET Late(t) == t.iter >= k IN SelectSeq(ts, Late)

\* the first run went from iteration zero and did not stop before the
\* threshold of the run that has now ended
ResumedAfter(r) ==
    /\ pc \in Terminal
    /\ InTemplate
    /\ r.start = 0
    /\ r.status = "failure" \/ r.iteration >= start_at

\* C11: resume does not repeat trials.  For a deterministic command and any
\* candidate list, duplicates included, the command is never run while the
\* iteration counter is below the threshold k; the trials of the run resumed
\* at k are the trials the run from zero makes from its iteration k onward,
\* and none of the trials the run from zero made below k is made again.
C11_ResumeSameTrials ==
    /\ \A k \in 1 .. Len(trials) : trials[k].iter >= start_at
    /\ \A r \in Range(prior) :
          ResumedAfter(r) =>
            /\ Visits(trials) = Visits(TrialsFrom(r.trials, start_at))
            /\ \A a \in 1 .. Len(r.trials), b \in 1 .. Len(trials) :
                  r.trials[a].iter < start_at
                    => Visits(r.trials)[a] # Visits(trials)[b]

\* the same for candidate lists without duplicates (not a claim: a check
\* that the divergence needs an offset absent from the crash-byte map)
ResumeSameTrialsNoDup == NoDup(Candidates) => C11_ResumeSameTrials

\* the pairs visited by r completed rounds over a list of m entries: the
\* list is one entry shorter in every round (m, m - 1, ..., m - i + 1)
VisitedBefore(m, r) == (r * (2 * m - r + 1)) \div 2

\* C12: the iteration counter counts every visited pair.  It never goes
\* down, and it goes up by one for every entry of the candidate sequence the
\* inner loop visits without a crash, be it skipped by the threshold, tried,
\* or skipped for being absent from the crash-byte map: at the head of the
\* inner loop it is the number of pairs visited so far, and after r completed
\* rounds the sum of the lengths the sequence had in those rounds.
C12_CountsEveryVisit ==
    (Loaded /\ pc \in { "loop", "run", "copy", "finally_next" })
        => iteration = VisitedBefore(n, i) + (j - 1)

\* the same for candidate lists without duplicates, and that the counter
\* never goes down (not a claim: what is left of C12 in the code)
CountsEveryVisitNoDup ==
    NoDup(Candidates) => C12_CountsEveryVisit

CounterNeverDecreases ==
    [][pc # "start" => iteration' >= iteration]_vars

\* C13 as stated: in every state of a run, for every accepted candidate
\* list, duplicates included, the keys of the crash-byte map are the offsets
\* present in the candidate sequence; a commit removes the offset from both.
C13_Lockstep ==
    (Loaded /\ InTemplate) => DOMAIN crash = Range(diff)

\* C13: once both collections are loaded, the keys of the crash-byte map are
\* the offsets of the loaded list not committed yet; when every offset is
\* within the template, every key is present in the candidate sequence, and
\* for a list without duplicates the keys are exactly the offsets of the
\* sequence.  A commit removes the last entry of the sequence and its key in
\* the same step.
C13_LockstepNoDup ==
    /\ [](Loaded => DOMAIN crash = Range(Candidates) \ Range(Committed))
    /\ []((Loaded /\ InTemplate)
            => /\ DOMAIN crash \subseteq Range(diff)
               /\ NoDup(Candidates) => DOMAIN crash = Range(diff))
    /\ [][i' = i + 1
            => /\ diff' = SubSeq(diff, 1, Len(diff) - 1)
               /\ DOMAIN crash' = DOMAIN crash \ { diff[Len(diff)] }]_vars

C13_Witness ==
    /\ Loaded
    /\ NoDup(Candidates)
    /\ Len(popped) = 1
    /\ Len(diff) = 2
    /\ DOMAIN crash = Range(diff)

\* the offsets of the last r entries of the loaded candidate list
LastOffsets(r) ==
    { Candidates[k] : k \in (Len(Candidates) - r + 1) .. Len(Candidates) }

\* C14: trial buffer composition.  The buffer handed to the command is the
\* current template everywhere but at the offset under trial, where it holds
\* the crashing file's byte; the current template is the loaded template
\* everywhere but at the committed offsets (where it holds the crashing
\* file's byte).  So for a list without duplicates a trial of round r applies
\* the last r offsets of the loaded list and one of the entries before them.
C14_TrialBuffer ==
    /\ pc \in { "run", "copy" }
          => \A o \in DOMAIN templateFile :
                OnDisk(scratch)[o] = IF o = diff[j] THEN crashFile[o]
                                                    ELSE template[o]
    /\ Loaded
          => /\ template = Apply(Range(popped))
             /\ \A o \in DOMAIN templateFile \ Range(popped) :
                    template[o] = templateFile[o]
    /\ NoDup(Candidates)
          => \A k \in 1 .. Len(trials) :
                LET t == trials[k] IN
                /\ t.idx \in 1 .. (Len(Candidates) - t.round)
                /\ t.pos = Candidates[t.idx]
                /\ t.pos \notin LastOffsets(t.round)
                /\ t.buf = Apply(LastOffsets(t.round) \cup { t.pos })

C14_Witness ==
    /\ pc = "run"
    /\ NoDup(Candidates)
    /\ i = 2
    /\ j = 1
    /\ OnDisk(scratch) = Apply(Range(Candidates))
    /\ OnDisk(scratch) # template
    /\ template # templateFile

\* C15: trials leave the engine state unchanged.  Building the buffer,
\* running the command and classifying a non-crash leave the template
\* buffer, the candidate sequence and the crash-byte map as they were; the
\* template buffer changes only in a commit step, and then only at the
\* committed offset, which takes the crashing file's byte.
C15_TrialsFrameState ==
    /\ [][(pc # "start" /\ popped' = popped)
            => UNCHANGED <<template, diff, crash>>]_vars
    /\ [][(pc # "start" /\ template' # template)
            => /\ i' = i + 1
               /\ popped' = Append(popped, diff[Len(diff)])
               /\ template' = [template EXCEPT
                                 ![diff[Len(diff)]] = crashFile[diff[Len(diff)]]]
         ]_vars

C15_Witness ==
    /\ pc = "finally_next"
    /\ ret \in NonCrashRets
    /\ i = 1
    /\ buf # template
    /\ template # templateFile
    /\ Len(trials) > Len(diff)

\* C16: ordering of trials and commits.  Within one outer round the offsets
\* are tried one at a time in the order of the candidate sequence as it was
\* at the start of the round (the loaded list less its last entries); the
\* round's commit comes only when every entry of the round has been visited
\* and none crashed; no commit falls between two trials of one round.
C16_TrialsThenCommit ==
    /\ [](\A a, b \in 1 .. Len(trials) :
            a < b => /\ trials[a].round <= trials[b].round
                     /\ trials[a].round = trials[b].round
                           => trials[a].idx < trials[b].idx)
    /\ [](\A k \in 1 .. Len(trials) :
            /\ trials[k].idx \in 1 .. (Len(Candidates) - trials[k].round)
            /\ trials[k].pos = Candidates[trials[k].idx])
    /\ [](pc = "run" => scratch = { buf })
    /\ [][(pc # "start" /\ popped' = popped /\ j' # j) => j' = j + 1]_vars
    /\ [][(i' = i + 1 \/ Len(popped') > Len(popped))
            => /\ pc = "loop"
               /\ j = Len(diff) + 1
               /\ NoCrashSeen
               /\ Len(popped') = Len(popped) + 1]_vars
    /\ [][Len(trials') > Len(trials)
            => /\ trials'[Len(trials')].round = Len(popped)
               /\ popped' = popped]_vars

C16_Witness ==
    /\ pc = "run"
    /\ Len(popped) = 1
    /\ Len(trials) = 4
    /\ trials[3].round = 0 /\ trials[3].idx = 3
    /\ trials[4].round = 1 /\ trials[4].idx = 1
    /\ j = 2

\* C17: a crash stops the search at once.  Once a run of the command has
\* been classified as a crash, the command is not run again, nothing is
\* committed or removed from the candidate sequence and the iteration counter
\* stays: the only steps that follow persist the buffer and remove the
\* scratch file.
C17_CrashStopsSearch ==
    /\ [](~NoCrashSeen
            => pc \in { "copy", "finally_break", "finally_raise",
                        "success", "aborted" })
    /\ [][~NoCrashSeen
            => /\ UNCHANGED <<trials, answers, memo, popped, fields>>
               /\ UNCHANGED <<i, j, iteration>>
               /\ \/ pc = "copy" /\ pc' \in { "finally_break", "finally_raise" }
                  \/ /\ pc \in { "finally_break", "finally_raise" }
                     /\ scratch' = {}
                     /\ written' = written
                     /\ pc' \in { "success", "aborted" }]_vars

C17_Witness ==
    /\ pc = "success"
    /\ ~NoCrashSeen
    /\ Len(trials) = 2
    /\ Len(diff) = 3
    /\ iteration = 1
    /\ scratch = {}

\* C18: bound on the search.  For a candidate list of n offsets a run makes
\* at most n outer rounds and at most n*n runs of the command, whatever the
\* command answers and whatever the resume threshold.  (The list is one
\* entry shorter in every round, so the runs number at most n*(n+1)/2.)
C18_SearchBound ==
    LET m == Len(Candidates) IN
    /\ i <= m
    /\ Len(popped) <= m
    /\ Len(trials) <= m * m
    /\ 2 * Len(trials) <= m * (m + 1)
    /\ \A k \in 1 .. Len(trials) : trials[k].round < m

C18_Witness ==
    /\ pc = "failure"
    /\ Len(Candidates) = 3
    /\ i = 3
    /\ Len(trials) = 6

\* C19: the mandatory change per the module documentation.  When no single
\* change reproduces the crash in a round, the change taken for mandatory,
\* applied to the template buffer and removed from the list of changes to
\* check, is the first change of the list.
C19_FirstChangeMandatory ==
    [][i' = i + 1
        => /\ popped' = Append(popped, diff[1])
           /\ diff' = Tail(diff)
           /\ template' = [template EXCEPT ![diff[1]] = crashFile[diff[1]]]
      ]_vars

\* the same for a list of one entry, where first and last are one (not a
\* claim: the documentation and the code part only on longer lists)
FirstChangeOfOne ==
    [][(i' = i + 1 /\ Len(diff) = 1) => popped' = Append(popped, diff[1])]_vars

\* every candidate change applied to the template file
FullBuffer == Apply(Range(Candidates))

\* a run from iteration zero on a loaded list that is not empty, with a
\* deterministic command not known to answer non-crash on the full buffer
CrashesOnFull ==
    /\ det
    /\ start_at = 0
    /\ Loaded
    /\ InTemplate
    /\ Candidates # << >>
    /\ [buf |-> FullBuffer, class |-> "noncrash"] \notin memo

\* C20: completeness of the search.  For a deterministic command that
\* crashes on the buffer with every candidate change applied, a run from
\* iteration zero on a non-empty candidate list (duplicates allowed, offsets
\* within the buffers) never ends in failure: a run that does end in failure
\* has tried the full buffer, in its last round, and seen no crash; and a run
\* that ends without the command or the copy raising ends in success.
C20_NeverFailsOnFull ==
    /\ (CrashesOnFull /\ pc \in Terminal) => pc # "failure"
    /\ (CrashesOnFull /\ pc \in Terminal
          /\ "raise" \notin answers /\ outdirOk # "no")
          => (pc = "success" /\ ret \in RETURN_SIGNALS /\ Len(written) = 1)
    /\ (det /\ start_at = 0 /\ Loaded /\ Candidates # << >> /\ pc = "failure")
          => \E k \in 1 .. Len(trials) :
                /\ trials[k].buf = FullBuffer
                /\ \A l \in 1 .. Len(trials) : trials[l].round <= trials[k].round

C20_Witness ==
    /\ pc = "success"
    /\ CrashesOnFull
    /\ ~NoDup(Candidates)
    /\ Len(Candidates) = 3
    /\ Len(popped) = 1
    /\ written = << FullBuffer >>
    /\ FullBuffer = crashFile

====
